---------------------------- MODULE Spec2Model ----------------------------
(***************************************************************************)
(* Model of the instance redeployment route                                *)
(*   src/routes/Instance/InstanceReDeploy.js                               *)
(*     isAdmin, validateRedeploymentParams,                                *)
(*     router.get('/instances/redeploy/:id'), prepareRequestData,          *)
(*     updateDatabaseWithNewInstance.                                      *)
(*                                                                         *)
(* One operation is one HTTP request.  Every `await` of the handler is a   *)
(* suspension point, so every action below runs the synchronous code from  *)
(* one await to the next.  The key-value store (db) and the node agent     *)
(* (axios) are the environment: a store call returns the value, or         *)
(* rejects, and a write may be acknowledged without being applied; an      *)
(* agent call succeeds or fails, and a POST may be answered 2xx without    *)
(* the ids of a new container.                                             *)
(*                                                                         *)
(* Strings the code parses (image, memory, cpu, ports) are sequences of    *)
(* one-character strings; strings the code only copies or compares (ids,   *)
(* name, user, primary) are atoms, "" being the missing parameter.         *)
(* A character beyond ASCII is named by its escape, as in "\\u2028".        *)
(* A number is the double parseInt                                         *)
(* returns: NaN, an integer (rounded to 53 significant binary digits) or   *)
(* an infinity.                                                            *)
(* An optional value (undefined or a value) is a sequence of length 0 or 1.*)
(* The LastUpdated stamp of a record (new Date()) is left out.             *)
(***************************************************************************)
EXTENDS Integers, Sequences, FiniteSets

VARIABLES store, op, log, started, faults

vars == <<store, op, log, started, faults>>

-----------------------------------------------------------------------------
(* Bounds *)

\* number of redeploy operations of one behaviour
MaxOps == 2

\* number of store calls that reject in one behaviour
MaxFaults == 1

\* number of characters of a parameter of a request that is read character
\* by character (image, memory, cpu, ports)
MaxLen == 24

-----------------------------------------------------------------------------
(* Strings *)

\* the characters \d of a regular expression and parseInt take for decimal
\* digits
Digits == {"0", "1", "2", "3", "4", "5", "6", "7", "8", "9"}

\* the digits of radix 16
HexDigits ==
    Digits \cup {"a", "b", "c", "d", "e", "f", "A", "B", "C", "D", "E", "F"}

\* the white space of ASCII that parseInt skips
AsciiWhiteSpace == {" ", "\t", "\n", "\r", "\f", ""}

\* A character beyond ASCII is named by its JavaScript escape, the six
\* characters of \uXXXX in one string, and is never written as itself.
\* These are the names of the white space beyond ASCII that parseInt skips:
\* U+00A0, U+FEFF, the space separators U+1680, U+2000 to U+200A, U+202F,
\* U+205F and U+3000, and the line terminators U+2028 and U+2029; the
\* vertical tab has its name too.
NamedWhiteSpace ==
    {"\\u000B", "\\u00A0", "\\uFEFF", "\\u1680", "\\u2000",
     "\\u2001", "\\u2002", "\\u2003", "\\u2004", "\\u2005",
     "\\u2006", "\\u2007", "\\u2008", "\\u2009", "\\u200A",
     "\\u2028", "\\u2029", "\\u202F", "\\u205F", "\\u3000"}

\* the white space parseInt skips: WhiteSpace and LineTerminator of
\* ECMAScript
WhiteSpace == AsciiWhiteSpace \cup NamedWhiteSpace

None == <<>>

Some(v) == <<v>>

\* A JavaScript number that parseInt returns is NaN, an integer that a
\* double holds, or an infinity.  NaN is the empty sequence and an integer n
\* of 31 binary digits or fewer the sequence <<n>>, so that no integer stands
\* for NaN.  A larger integer is its sign followed by its binary digits, the
\* least significant first; an infinity is its sign followed by the digit 0,
\* which is the leading digit of no integer.
NaN == <<>>

Num(n) == <<n>>

Big(sign, bits) == <<sign>> \o bits

Infinity(sign) == <<sign, 0>>

\* JavaScript truthiness of a string of characters
Truthy(s) == s /= <<>>

\* the value of a digit of radix 10 or 16
DigitVal(c) ==
    CASE c = "0" -> 0 [] c = "1" -> 1 [] c = "2" -> 2 [] c = "3" -> 3 [] c = "4" -> 4
      [] c = "5" -> 5 [] c = "6" -> 6 [] c = "7" -> 7 [] c = "8" -> 8 [] c = "9" -> 9
      [] c \in {"a", "A"} -> 10 [] c \in {"b", "B"} -> 11 [] c \in {"c", "C"} -> 12
      [] c \in {"d", "D"} -> 13 [] c \in {"e", "E"} -> 14 [] c \in {"f", "F"} -> 15
      [] OTHER -> 0

\* the length of the longest prefix of s made of characters of the set
RECURSIVE PrefixLen(_, _)
PrefixLen(s, chars) ==
    IF s = <<>> \/ Head(s) \notin chars THEN 0
    ELSE 1 + PrefixLen(Tail(s), chars)

\* the length of the longest prefix of s made of decimal digits
DigitPrefixLen(s) == PrefixLen(s, Digits)

\* the binary digits of  radix * n + carry,  n given by its binary digits;
\* binary digits are written the least significant first, and the last one
\* is 1
RECURSIVE MulAdd(_, _, _)
MulAdd(bits, radix, carry) ==
    IF bits = <<>>
    THEN IF carry = 0 THEN <<>>
         ELSE <<carry % 2>> \o MulAdd(<<>>, radix, carry \div 2)
    ELSE <<(radix * Head(bits) + carry) % 2>>
         \o MulAdd(Tail(bits), radix, (radix * Head(bits) + carry) \div 2)

\* the binary digits of the integer the digits of s write in the radix
RECURSIVE DigitsBits(_, _)
DigitsBits(s, radix) ==
    IF s = <<>> THEN <<>>
    ELSE MulAdd(DigitsBits(SubSeq(s, 1, Len(s) - 1), radix), radix,
                DigitVal(s[Len(s)]))

\* the binary digits of n + 1
RECURSIVE Increment(_)
Increment(bits) ==
    IF bits = <<>> THEN <<1>>
    ELSE IF Head(bits) = 0 THEN <<1>> \o Tail(bits)
    ELSE <<0>> \o Increment(Tail(bits))

\* Dropping the k lowest digits rounds up when they are more than half of
\* the lowest digit kept, or half of it and that digit is odd.
RoundsUp(bits, k) ==
    /\ bits[k] = 1
    /\ bits[k + 1] = 1 \/ \E i \in 1..(k - 1) : bits[i] = 1

\* the digits from k + 1 on, rounded, above k digits 0
RoundAt(bits, k) ==
    [i \in 1..k |-> 0]
    \o (IF RoundsUp(bits, k) THEN Increment(SubSeq(bits, k + 1, Len(bits)))
        ELSE SubSeq(bits, k + 1, Len(bits)))

\* the integer a double holds for the integer of these binary digits: the
\* nearest one of 53 significant digits, the even one of two as near
ToDouble(bits) ==
    IF Len(bits) <= 53 THEN bits ELSE RoundAt(bits, Len(bits) - 53)

\* the integer of 31 binary digits or fewer
RECURSIVE BitsValue(_)
BitsValue(bits) ==
    IF bits = <<>> THEN 0 ELSE Head(bits) + 2 * BitsValue(Tail(bits))

\* the number of a sign and the binary digits a double holds; beyond the
\* 1024 digits of the largest double it is an infinity
SignedNumber(sign, bits) ==
    IF Len(bits) <= 31 THEN Num(sign * BitsValue(bits))
    ELSE IF Len(bits) > 1024 THEN Infinity(sign)
    ELSE Big(sign, bits)

\* the integer the digits of s write in the radix, for an integer below 2^31
RECURSIVE DigitsValue(_, _)
DigitsValue(s, radix) ==
    IF s = <<>> THEN 0
    ELSE radix * DigitsValue(SubSeq(s, 1, Len(s) - 1), radix) + DigitVal(s[Len(s)])

\* s without the zeros it starts with
Significant(s) == SubSeq(s, PrefixLen(s, {"0"}) + 1, Len(s))

\* 9 decimal digits and 7 hexadecimal digits write an integer below 2^31
IsShort(s, radix) == Len(s) <= (IF radix = 16 THEN 7 ELSE 9)

\* the number the digits of s write in the radix, with the sign: the double
\* nearest to the integer written
NumberOf(s, radix, sign) ==
    IF IsShort(s, radix) THEN Num(sign * DigitsValue(s, radix))
    ELSE SignedNumber(sign, ToDouble(DigitsBits(s, radix)))

\* s without the white space it starts with
TrimStart(s) == SubSeq(s, PrefixLen(s, WhiteSpace) + 1, Len(s))

\* the number the longest prefix of v made of digits of the radix writes,
\* with the sign; NaN when v starts with no such digit
ParseDigits(v, chars, radix, sign) ==
    IF PrefixLen(v, chars) = 0 THEN NaN
    ELSE NumberOf(Significant(SubSeq(v, 1, PrefixLen(v, chars))), radix, sign)

\* 0x or 0X makes the radix 16 and is skipped
ParseUnsigned(u, sign) ==
    IF Len(u) >= 2 /\ u[1] = "0" /\ u[2] \in {"x", "X"}
    THEN ParseDigits(SubSeq(u, 3, Len(u)), HexDigits, 16, sign)
    ELSE ParseDigits(u, Digits, 10, sign)

\* a sign is read and skipped
ParseSigned(t) ==
    IF t /= <<>> /\ Head(t) = "-" THEN ParseUnsigned(Tail(t), -1)
    ELSE IF t /= <<>> /\ Head(t) = "+" THEN ParseUnsigned(Tail(t), 1)
    ELSE ParseUnsigned(t, 1)

\* parseInt(s) without a radix: leading white space is skipped, then a sign,
\* then 0x or 0X; the number is written by the digits that follow, up to the
\* first character that is not a digit of the radix, and is NaN when there is
\* none.  The number is the double nearest to the integer written.
parseInt(s) == ParseSigned(TrimStart(s))

isNaN(n) == n = NaN

\* the position of the first c in s at or after position i, 0 if none
RECURSIVE IndexFrom(_, _, _)
IndexFrom(s, c, i) ==
    IF i > Len(s) THEN 0
    ELSE IF s[i] = c THEN i
    ELSE IndexFrom(s, c, i + 1)

\* s.split(sep)
RECURSIVE Split(_, _)
Split(s, sep) ==
    LET k == IndexFrom(s, sep, 1)
    IN  IF k = 0 THEN <<s>>
        ELSE <<SubSeq(s, 1, k - 1)>> \o Split(SubSeq(s, k + 1, Len(s)), sep)

AllDigits(s) == s /= <<>> /\ \A i \in 1..Len(s) : s[i] \in Digits

\* one \d+:\d+ group
PortPairOK(s) ==
    LET k == IndexFrom(s, ":", 1)
    IN  /\ k /= 0
        /\ AllDigits(SubSeq(s, 1, k - 1))
        /\ AllDigits(SubSeq(s, k + 1, Len(s)))

\* /^(\d+:\d+)(,\d+:\d+)*$/.test(ports)
portRegexTest(ports) ==
    LET parts == Split(ports, ",")
    IN  \A i \in 1..Len(parts) : PortPairOK(parts[i])

\* image.match(/\(([^)]+)\)/): the captured group of the leftmost match, as an
\* optional value.  From an opening parenthesis at i, [^)]+ runs to the next
\* closing parenthesis, which has to be at least two places further.
RECURSIVE MatchFrom(_, _)
MatchFrom(s, i) ==
    LET o == IndexFrom(s, "(", i)
        c == IF o = 0 THEN 0 ELSE IndexFrom(s, ")", o + 1)
    IN  IF o = 0 \/ c = 0 THEN None
        ELSE IF c > o + 1 THEN Some(SubSeq(s, o + 1, c - 1))
        ELSE MatchFrom(s, o + 1)

imageMatch(image) == MatchFrom(image, 1)

-----------------------------------------------------------------------------
(* Store keys and records *)

kInstance(id) == <<id, "_instance">>

kNode(nodeId) == <<nodeId, "_node">>

kUserInstances(userId) == <<userId, "_instances">>

kInstances == <<"instances">>

kImages == <<"images">>

\* the image name of the catalog
ImgA == <<"a">>

Node1 == [id |-> "n1", address |-> "h1", port |-> "p1", apiKey |-> "k1"]

\* a node whose record {n2}_node is absent
Node2 == [id |-> "n2", address |-> "h2", port |-> "p2", apiKey |-> "k2"]

\* a node reference without an id
Node0 == [id |-> "", address |-> "h0", port |-> "p0", apiKey |-> "k0"]

\* an environment list: isArray tells a list from any other value
EnvList == [isArray |-> TRUE, val |-> <<"E=1">>]

EnvOther == [isArray |-> FALSE, val |-> <<>>]

EnvEmpty == [isArray |-> TRUE, val |-> <<>>]

\* the record of an instance as the provisioning flow left it
OldInstance(id, node, user, cid, env) ==
    [Name |-> "old", Id |-> id, Node |-> node, User |-> user,
     ContainerId |-> cid, VolumeId |-> id, Memory |-> Num(1), Cpu |-> Num(1),
     Ports |-> <<"8", ":", "9">>, Primary |-> "t", Env |-> env,
     Image |-> ImgA, AltImages |-> <<>>, imageData |-> "blob"]

Inst1 == OldInstance("i1", Node1, "u1", "c1", EnvList)

Inst2 == OldInstance("i2", Node1, "u1", "c2", EnvOther)

Inst3 == OldInstance("i3", Node2, "u1", "c3", EnvList)

Inst4 == OldInstance("i4", Node0, "u1", "c4", EnvList)

Catalog == << [Image |-> ImgA, Scripts |-> <<"s1">>, AltImages |-> <<"alt1">>] >>

InstIds == {"i1", "i2", "i3", "i4", "i9"}

UserIds == {"u1", "u2"}

NodeIds == {"n1", "n2"}

Keys == {kInstance(i) : i \in InstIds} \cup {kNode(n) : n \in NodeIds}
          \cup {kUserInstances(u) : u \in UserIds} \cup {kInstances, kImages}

\* the store before the first operation; u2list is the optional value of
\* {u2}_instances
InitialStore(u2list) ==
    [k \in Keys |->
        CASE k = kInstance("i1") -> Some(Inst1)
          [] k = kInstance("i2") -> Some(Inst2)
          [] k = kInstance("i3") -> Some(Inst3)
          [] k = kInstance("i4") -> Some(Inst4)
          [] k = kNode("n1") -> Some(Node1)
          [] k = kUserInstances("u1") -> Some(<<Inst1, Inst2, Inst3, Inst4>>)
          [] k = kUserInstances("u2") -> u2list
          [] k = kInstances -> Some(<<Inst1, Inst2, Inst3, Inst4>>)
          [] k = kImages -> Some(Catalog)
          [] OTHER -> None]

-----------------------------------------------------------------------------
(* Requests and responses *)

NoData == [containerId |-> "", volumeId |-> "", instanceId |-> ""]

\* res.status(status).json(...) or .redirect(...): error names the failure,
\* details carries the error message of the catch-all handler
Reply(status, error, details, missing, data) ==
    [status |-> status, error |-> error, details |-> details,
     missing |-> missing, data |-> data]

Fail(status, error) == Reply(status, error, "", <<>>, NoData)

\* missingParams reporting only the first missing name
missingParamsFirstOnly(q) ==
    IF ~Truthy(q.image) THEN <<"image">>
    ELSE IF ~Truthy(q.memory) THEN <<"memory">>
    ELSE IF ~Truthy(q.cpu) THEN <<"cpu">>
    ELSE IF ~Truthy(q.ports) THEN <<"ports">>
    ELSE IF q.name = "" THEN <<"name">>
    ELSE IF q.user = "" THEN <<"user">>
    ELSE IF q.primary = "" THEN <<"primary">>
    ELSE <<>>

\* the names validateRedeploymentParams collects, in the order of its tests
missingParams(q) ==
    (IF ~Truthy(q.image) THEN <<"image">> ELSE <<>>)
    \o (IF ~Truthy(q.memory) THEN <<"memory">> ELSE <<>>)
    \o (IF ~Truthy(q.cpu) THEN <<"cpu">> ELSE <<>>)
    \o (IF ~Truthy(q.ports) THEN <<"ports">> ELSE <<>>)
    \o (IF q.name = "" THEN <<"name">> ELSE <<>>)
    \o (IF q.user = "" THEN <<"user">> ELSE <<>>)
    \o (IF q.primary = "" THEN <<"primary">> ELSE <<>>)

\* validateRedeploymentParams without the test of the port format
validateRedeploymentParamsSkipsPorts(q) ==
    IF q.id = "" THEN Some(Fail(400, "missing_instance_id"))
    ELSE IF Len(missingParams(q)) > 0
        THEN Some(Reply(400, "Missing required parameters", "", missingParams(q), NoData))
    ELSE IF isNaN(parseInt(q.memory)) THEN Some(Fail(400, "Invalid memory value"))
    ELSE IF isNaN(parseInt(q.cpu)) THEN Some(Fail(400, "Invalid CPU value"))
    ELSE None

\* validateRedeploymentParams: the response it sends, or None when it calls
\* next()
validateRedeploymentParams(q) ==
    IF q.id = "" THEN Some(Fail(400, "missing_instance_id"))
    ELSE IF Len(missingParams(q)) > 0
        THEN Some(Reply(400, "Missing required parameters", "", missingParams(q), NoData))
    ELSE IF ~portRegexTest(q.ports) THEN Some(Fail(400, "Invalid port format"))
    ELSE IF isNaN(parseInt(q.memory)) THEN Some(Fail(400, "Invalid memory value"))
    ELSE IF isNaN(parseInt(q.cpu)) THEN Some(Fail(400, "Invalid CPU value"))
    ELSE None

\* req.user as the session left it: undefined, or an object whose admin
\* property is written here as the JavaScript literal of its value
AdminUser == Some([admin |-> "true"])

PlainUser == Some([admin |-> "false"])

\* admin is the string 'true', not the boolean
StringAdminUser == Some([admin |-> "'true'"])

\* a request of an administrator: req.params.id and the seven query
\* parameters
Request(id, image, memory, cpu, ports, name, user, primary) ==
    [id |-> id, image |-> image, memory |-> memory, cpu |-> cpu, ports |-> ports,
     name |-> name, user |-> user, primary |-> primary, reqUser |-> AdminUser]

\* the request q sent in the session of reqUser
SentBy(q, reqUser) == [q EXCEPT !.reqUser = reqUser]

\* the parameters that are read character by character have MaxLen
\* characters or fewer
WithinMaxLen(q) ==
    \A f \in {"image", "memory", "cpu", "ports"} : Len(q[f]) <= MaxLen

\* the 403 redirect to '../' of isAdmin
Forbidden == Fail(403, "../")

\* isAdmin: the response it sends (having recorded
\* unauthorized_access:admin_route), or None when it calls next()
isAdmin(q) ==
    IF q.reqUser = None \/ q.reqUser[1].admin /= "true" THEN Some(Forbidden)
    ELSE None

NoReq == Request("", <<>>, <<>>, <<>>, <<>>, "", "", "")

\* image parameters: a name in the catalog, a name outside it, no
\* parentheses, empty parentheses
ImageParams == { <<"x", "(", "a", ")">>, <<"x", "(", "b", ")">>, <<"a">>, <<"(", ")">> }

GoodMemory == <<"5", "a">>

GoodCpu == <<"1">>

GoodPorts == <<"8", ":", "9">>

\* requests the validator passes: for i1 and the instance of the absent
\* node with every image, for i1 with either user, and one for each other
\* instance
PassingRequests ==
    { Request(id, image, GoodMemory, GoodCpu, GoodPorts, "nm", "u1", "t") :
        id \in {"i1", "i3"}, image \in ImageParams }
    \cup { Request("i1", <<"x", "(", "a", ")">>, GoodMemory, GoodCpu, GoodPorts, "nm", user, "t") :
        user \in UserIds }
    \cup { Request(id, <<"x", "(", "a", ")">>, GoodMemory, GoodCpu, GoodPorts, "nm", "u1", "t") :
        id \in InstIds }

\* requests the validator rejects, one for each of its tests
RejectedRequests ==
    { Request("", <<"x", "(", "a", ")">>, GoodMemory, GoodCpu, GoodPorts, "nm", "u1", "t"),
      Request("i1", <<>>, GoodMemory, <<>>, GoodPorts, "nm", "", "t"),
      Request("i1", <<"x", "(", "a", ")">>, GoodMemory, GoodCpu, <<"8", "-", "9">>, "nm", "u1", "t"),
      Request("i1", <<"x", "(", "a", ")">>, GoodMemory, GoodCpu, <<"8", ":", "9", ",">>, "nm", "u1", "t"),
      Request("i1", <<"x", "(", "a", ")">>, <<"a">>, GoodCpu, GoodPorts, "nm", "u1", "t"),
      Request("i1", <<"x", "(", "a", ")">>, GoodMemory, <<"a", "1">>, GoodPorts, "nm", "u1", "t") }

\* requests isAdmin turns away: without a session, of a user who is not an
\* administrator, with admin a string, and one the validator would reject too
UnauthorizedRequests ==
    { SentBy(Request("i1", <<"x", "(", "a", ")">>, GoodMemory, GoodCpu, GoodPorts, "nm", "u1", "t"),
             None),
      SentBy(Request("i1", <<"x", "(", "a", ")">>, GoodMemory, GoodCpu, GoodPorts, "nm", "u1", "t"),
             PlainUser),
      SentBy(Request("i1", <<"x", "(", "a", ")">>, GoodMemory, GoodCpu, GoodPorts, "nm", "u1", "t"),
             StringAdminUser),
      SentBy(Request("i1", <<>>, GoodMemory, <<>>, GoodPorts, "nm", "", "t"), PlainUser) }

\* the requests of the sequential specifications
Requests == PassingRequests \cup RejectedRequests \cup UnauthorizedRequests

-----------------------------------------------------------------------------
(* The state of one operation *)

Ops == {"opA", "opB"}

\* the locals of the handler and of the functions it calls; dbSets (the keys
\* of the db.set calls made so far) and dropped (the writes the store
\* acknowledged without applying), containerCheck (the outcome of the
\* existence check) and rollback (the outcome of the compensating DELETE)
\* record what happened, the code reads none of them
IdleOp ==
    [pc |-> "idle", req |-> NoReq, instance |-> None, node |-> None,
     shortimage |-> <<>>, requestData |-> None, responseData |-> None,
     instanceData |-> None, pending |-> {},
     userInstances |-> None, globalInstances |-> None,
     updatedUserInstances |-> <<>>, updatedGlobalInstances |-> <<>>,
     verification |-> [user |-> FALSE, global |-> FALSE, record |-> FALSE],
     dbError |-> "", thrown |-> "", response |-> None,
     dbSets |-> <<>>, dropped |-> {}, containerCheck |-> "", rollback |-> ""]

\* an entry of the log of an operation: a logAudit call (kind "audit", name
\* the event) or a request to the node agent (kind "agent", name the method)
AuditEvent(event, instanceId, nodeId, error, newContainerId) ==
    [kind |-> "audit", name |-> event, instanceId |-> instanceId, nodeId |-> nodeId,
     error |-> error, containerId |-> newContainerId]

AgentRequest(method, containerId) ==
    [kind |-> "agent", name |-> method, instanceId |-> "", nodeId |-> "",
     error |-> "", containerId |-> containerId]

\* what one step does besides the store write: the new locals, the audit
\* events it records and the requests it sends to the node agent
Effect(o, events, requests) == [op |-> o, audit |-> events, agent |-> requests]

\* res.status(...).json(...): the operation is over
Respond(o, reply) == [o EXCEPT !.pc = "done", !.response = Some(reply)]

\* the catch-all handler of the route (lines 212-224)
CatchAll(o, message) ==
    Respond(o, Reply(500, "Instance redeployment failed", message, <<>>, NoData))

\* throw at the end of a .catch callback (lines 164, 192): the promise of
\* the callback is rejected, and the catch-all handler runs in a later turn
Throw(o, message) == [o EXCEPT !.pc = "Rethrow", !.thrown = message]

StoreError == "store error"

\* the route's middlewares in order (line 83): isAdmin turns the request away
\* with the audit event, validateRedeploymentParams rejects it, or the
\* handler is entered
afterMiddlewares(q) ==
    IF isAdmin(q) /= None
    THEN Effect(Respond([IdleOp EXCEPT !.req = q], isAdmin(q)[1]),
                <<AuditEvent("unauthorized_access:admin_route", "", "", "", "")>>, <<>>)
    ELSE IF validateRedeploymentParams(q) /= None
    THEN Effect(Respond([IdleOp EXCEPT !.req = q], validateRedeploymentParams(q)[1]),
                <<>>, <<>>)
    ELSE Effect([IdleOp EXCEPT !.pc = "FetchInstance", !.req = q], <<>>, <<>>)

-----------------------------------------------------------------------------
(* FetchInstance, FetchNode, VerifyContainer *)

\* after db.get(`${id}_instance`) returned value
afterFetchInstance(o, value) ==
    LET id == o.req.id
    IN  IF value = None
        THEN Effect(Respond(o, Fail(404, "instance_not_found")),
                    <<AuditEvent("instance:redeploy_fail:not_found", id, "", "", "")>>, <<>>)
        ELSE IF value[1].Node.id = ""
        THEN Effect(Respond(o, Fail(400, "Instance has no associated node")), <<>>, <<>>)
        ELSE IF imageMatch(o.req.image) = None
        THEN Effect(Respond(o, Fail(400, "Invalid image format")), <<>>, <<>>)
        ELSE Effect([o EXCEPT !.pc = "FetchNode", !.instance = value,
                              !.shortimage = imageMatch(o.req.image)[1]],
                    <<>>, <<>>)

\* afterFetchNode with the instance id in the audit event instead of the
\* node id
afterFetchNodeAuditsInstance(o, value) ==
    IF value = None
    THEN Effect(Respond(o, Fail(400, "Invalid node")),
                <<AuditEvent("instance:redeploy_fail:invalid_node", o.req.id, "", "", "")>>,
                <<>>)
    ELSE Effect([o EXCEPT !.pc = "VerifyContainer", !.node = value],
                <<>>, <<AgentRequest("get", o.instance[1].ContainerId)>>)

\* after db.get(`${nodeId}_node`) returned value: the existence check is sent
afterFetchNode(o, value) ==
    LET nodeId == o.instance[1].Node.id
    IN  IF value = None
        THEN Effect(Respond(o, Fail(400, "Invalid node")),
                    <<AuditEvent("instance:redeploy_fail:invalid_node", "", nodeId, "", "")>>, <<>>)
        ELSE Effect([o EXCEPT !.pc = "VerifyContainer", !.node = value],
                    <<>>, <<AgentRequest("get", o.instance[1].ContainerId)>>)

\* the outcomes of the existence check: a body, an empty body, a failure
GetOutcomes == {"ok", "empty", "error"}

\* afterContainerCheck taking an empty response body for a found container
afterContainerCheckAcceptsEmpty(o, outcome) ==
    IF outcome \in {"ok", "empty"}
    THEN Effect([o EXCEPT !.pc = "BuildPayload", !.containerCheck = outcome], <<>>, <<>>)
    ELSE Effect(Respond([o EXCEPT !.containerCheck = outcome],
                        Fail(400, "Container check failed")),
                <<AuditEvent("instance:redeploy_fail:container_check", o.req.id, "",
                             "Request failed", "")>>,
                <<>>)

\* after the GET returned: prepareRequestData is called and reads the catalog
afterContainerCheck(o, outcome) ==
    IF outcome = "ok"
    THEN Effect([o EXCEPT !.pc = "BuildPayload", !.containerCheck = outcome], <<>>, <<>>)
    ELSE Effect(Respond([o EXCEPT !.containerCheck = outcome],
                        Fail(400, "Container check failed")),
                <<AuditEvent("instance:redeploy_fail:container_check", o.req.id, "",
                             IF outcome = "empty" THEN "Container not found"
                             ELSE "Request failed", "")>>,
                <<>>)

-----------------------------------------------------------------------------
(* prepareRequestData and the redeploy call *)

\* rawImages.find(i => i.Image === image), as an optional value
RECURSIVE findImage(_, _)
findImage(rawImages, image) ==
    IF rawImages = <<>> THEN None
    ELSE IF Head(rawImages).Image = image THEN Some(Head(rawImages))
    ELSE findImage(Tail(rawImages), image)

\* `await db.get('images') || []`
orEmpty(value) == IF value = None THEN <<>> ELSE value[1]

\* Array.isArray(Env) ? Env : []
coerceEnv(Env) == IF Env.isArray THEN Env ELSE EnvEmpty

\* const [hostPort, containerPort] = portMapping.split(':'); a missing
\* element is undefined, falsy like the empty string
hostPortOf(portMapping) == Split(portMapping, ":")[1]

containerPortOf(portMapping) ==
    LET parts == Split(portMapping, ":")
    IN  IF Len(parts) >= 2 THEN parts[2] ELSE <<>>

\* the error the forEach body throws for one mapping, "" if none
portMappingError(portMapping) ==
    IF ~Truthy(hostPortOf(portMapping)) \/ ~Truthy(containerPortOf(portMapping))
        THEN "Invalid port mapping"
    ELSE IF isNaN(parseInt(hostPortOf(portMapping))) THEN "Invalid host port"
    ELSE IF isNaN(parseInt(containerPortOf(portMapping))) THEN "Invalid container port"
    ELSE ""

\* the error of the first mapping that throws, "" if none does
RECURSIVE firstPortError(_)
firstPortError(mappings) ==
    IF mappings = <<>> THEN ""
    ELSE IF portMappingError(Head(mappings)) /= "" THEN portMappingError(Head(mappings))
    ELSE firstPortError(Tail(mappings))

portKey(portMapping) == containerPortOf(portMapping) \o <<"/tcp">>

\* requestData.data.ExposedPorts: the keys set by the loop
ExposedPorts(mappings) == {portKey(mappings[i]) : i \in 1..Len(mappings)}

\* requestData.data.PortBindings: a later mapping of a key replaces an earlier
PortBindings(mappings) ==
    [k \in ExposedPorts(mappings) |->
        LET last == CHOOSE i \in 1..Len(mappings) :
                        /\ portKey(mappings[i]) = k
                        /\ \A j \in (i + 1)..Len(mappings) : portKey(mappings[j]) /= k
        IN  <<[HostPort |-> hostPortOf(mappings[last])]>>]

portMappings(ports) == IF Truthy(ports) THEN Split(ports, ",") ELSE <<>>

\* the request descriptor of lines 239-268 with the ports of lines 271-291
buildRequestData(o, imageData) ==
    [method |-> "post", containerId |-> o.instance[1].ContainerId,
     node |-> o.node[1], timeout |-> 30000,
     data |-> [Name |-> o.req.name, Id |-> o.req.id, Image |-> o.shortimage,
               Env |-> coerceEnv(o.instance[1].Env), Scripts |-> imageData.Scripts,
               Memory |-> parseInt(o.req.memory), Cpu |-> parseInt(o.req.cpu),
               ExposedPorts |-> ExposedPorts(portMappings(o.req.ports)),
               PortBindings |-> PortBindings(portMappings(o.req.ports)),
               AltImages |-> imageData.AltImages,
               Labels |-> [instance |-> "true", id |-> o.req.id, managed |-> "true"]]]

\* afterPrepareRead persisting the new lists before the POST is sent
afterPrepareReadPersistsFirst(o, value) ==
    LET imageData == findImage(orEmpty(value), o.shortimage)
    IN  IF imageData = None
        THEN Effect(CatchAll(o, "Image not found in database"), <<>>, <<>>)
        ELSE Effect([o EXCEPT !.pc = "WriteUser",
                              !.requestData = Some(buildRequestData(o, imageData[1])),
                              !.updatedUserInstances = <<o.instance[1]>>],
                    <<>>, <<>>)

\* after db.get('images') returned value inside prepareRequestData: the
\* descriptor is built and the POST is sent, or the error reaches the
\* catch-all handler
afterPrepareRead(o, value) ==
    LET imageData == findImage(orEmpty(value), o.shortimage)
        portError == firstPortError(portMappings(o.req.ports))
    IN  IF imageData = None
        THEN Effect(CatchAll(o, "Image not found in database"), <<>>, <<>>)
        ELSE IF portError /= ""
        THEN Effect(CatchAll(o, portError), <<>>, <<>>)
        ELSE Effect([o EXCEPT !.pc = "InvokeRedeploy",
                              !.requestData = Some(buildRequestData(o, imageData[1]))],
                    <<>>, <<AgentRequest("post", o.instance[1].ContainerId)>>)

\* the container ids the node agent gives to new containers
NewContainerIds == {"c8", "c9"}

\* response.data of a POST: body is "object" for a body whose properties can
\* be read ({} and '' included) and "undefined" or "null" otherwise; a
\* property the body lacks is ""
ResponseData(body, containerId, volumeId) ==
    [body |-> body, containerId |-> containerId, volumeId |-> volumeId]

\* the outcomes of the POST: a 2xx response with the ids of the new
\* container, a 2xx response with a body without them or with no body (the
\* code does not test response.data), or a failure with or without an
\* upstream response
PostOutcomes(id) ==
    { [ok |-> TRUE, error |-> "", data |-> ResponseData("object", c, id)] :
        c \in NewContainerIds }
    \cup { [ok |-> TRUE, error |-> "", data |-> ResponseData("object", "c8", "v1")] }
    \cup { [ok |-> TRUE, error |-> "", data |-> ResponseData(b, "", "")] :
        b \in {"object", "undefined", "null"} }
    \cup { [ok |-> FALSE, error |-> e, data |-> ResponseData("undefined", "", "")] :
        e \in {"upstream status", "network error"} }

\* the outcomes of an agent that keeps to its interface
ContractOutcome(x) == x.ok /\ x.data.containerId /= ""

\* after the POST returned: updateDatabaseWithNewInstance is called and reads
\* the catalog, or the .catch of line 152 audits and throws the error again
afterRedeployCall(o, outcome) ==
    IF outcome.ok
    THEN Effect([o EXCEPT !.pc = "UpdateImages", !.responseData = Some(outcome.data)],
                <<>>, <<>>)
    ELSE Effect(Throw(o, outcome.error),
                <<AuditEvent("instance:redeploy_fail:api_error", o.req.id, "",
                             outcome.error, "")>>,
                <<>>)

-----------------------------------------------------------------------------
(* updateDatabaseWithNewInstance and the compensation *)

\* the .catch of lines 171-193 up to its await: the audit event is recorded
\* and the DELETE for response.data.containerId is sent.  When response.data
\* is undefined or null, reading containerId for the URL throws inside the
\* try of line 179: no DELETE is sent and the persistence error is thrown
\* again at once.
dbFailure(o, message) ==
    IF o.responseData[1].body = "object"
    THEN Effect([o EXCEPT !.pc = "Rollback", !.dbError = message],
                <<AuditEvent("instance:redeploy_fail:db_update", o.req.id, "", message, "")>>,
                <<AgentRequest("delete", o.responseData[1].containerId)>>)
    ELSE Effect(Throw([o EXCEPT !.dbError = message], message),
                <<AuditEvent("instance:redeploy_fail:db_update", o.req.id, "", message, "")>>,
                <<>>)

\* the record of lines 308-324
newInstanceData(o, rawImages) ==
    LET imageData == findImage(rawImages, o.shortimage)
    IN  [Name |-> o.req.name, Id |-> o.req.id, Node |-> o.node[1], User |-> o.req.user,
         ContainerId |-> o.responseData[1].containerId, VolumeId |-> o.req.id,
         Memory |-> parseInt(o.req.memory), Cpu |-> parseInt(o.req.cpu),
         Ports |-> o.req.ports, Primary |-> o.req.primary,
         Env |-> coerceEnv(o.instance[1].Env), Image |-> o.shortimage,
         AltImages |-> IF imageData = None THEN <<>> ELSE imageData[1].AltImages,
         imageData |-> IF o.instance[1].imageData = "" THEN "{}"
                       ELSE o.instance[1].imageData]

\* responseData.containerId (line 313) of a body that is undefined or null
TypeErrorContainerId(body) ==
    IF body = "null" THEN "Cannot read properties of null (reading 'containerId')"
    ELSE "Cannot read properties of undefined (reading 'containerId')"

\* after db.get('images') returned value inside updateDatabaseWithNewInstance:
\* the record is built and the two reads of Promise.all are started, or
\* reading responseData.containerId throws
afterUpdateImagesRead(o, value) ==
    IF o.responseData[1].body /= "object"
    THEN dbFailure(o, TypeErrorContainerId(o.responseData[1].body))
    ELSE Effect([o EXCEPT !.pc = "UpdateRead",
                          !.instanceData = Some(newInstanceData(o, orEmpty(value))),
                          !.pending = {"user", "global"}],
                <<>>, <<>>)

\* the key a read or a write of the updater names
keyOf(o, which) ==
    CASE which = "user" -> kUserInstances(o.req.user)
      [] which = "global" -> kInstances
      [] which = "record" -> kInstance(o.req.id)

\* writeOrder with the single-instance record written first
writeOrderRecordFirst == <<"record", "user", "global">>

\* the three db.set calls of lines 341-343, in the order of the code
writeOrder == <<"user", "global", "record">>

writePc(which) ==
    CASE which = "user" -> "WriteUser"
      [] which = "global" -> "WriteGlobal"
      [] which = "record" -> "WriteRecord"

\* filterOut keeping the old entry
filterOutNothing(list, id) == list

\* list.filter(instance => instance.Id !== id)
filterOut(list, id) == SelectSeq(list, LAMBDA instance : instance.Id /= id)

\* `db.get(key) || []` inside Promise.all([...]): the left operand is the
\* promise db.get returns, which is truthy, so the array never replaces it
\* and the awaited value is whatever db.get resolves to
promiseOrEmpty(value) == value

TypeErrorFilter == "Cannot read properties of undefined (reading 'filter')"

\* lines 333-341, once both reads returned: filter, push, and the first write
\* is started; filtering an undefined list throws
afterListsRead(o) ==
    IF promiseOrEmpty(o.userInstances) = None \/ promiseOrEmpty(o.globalInstances) = None
    THEN dbFailure(o, TypeErrorFilter)
    ELSE Effect([o EXCEPT !.pc = writePc(writeOrder[1]),
                          !.dbSets = Append(@, keyOf(o, writeOrder[1])),
                          !.updatedUserInstances =
                              Append(filterOut(promiseOrEmpty(o.userInstances)[1], o.req.id),
                                     o.instanceData[1]),
                          !.updatedGlobalInstances =
                              Append(filterOut(promiseOrEmpty(o.globalInstances)[1], o.req.id),
                                     o.instanceData[1])],
                <<>>, <<>>)

\* after one read of the Promise.all of lines 327-330 returned value
afterListRead(o, which, value) ==
    LET o1 == [o EXCEPT !.pending = @ \ {which},
                        !.userInstances = IF which = "user" THEN value ELSE @,
                        !.globalInstances = IF which = "global" THEN value ELSE @]
    IN  IF o1.pending = {} THEN afterListsRead(o1) ELSE Effect(o1, <<>>, <<>>)

\* the value a write stores
writeValue(o, which) ==
    CASE which = "user" -> Some(o.updatedUserInstances)
      [] which = "global" -> Some(o.updatedGlobalInstances)
      [] which = "record" -> o.instanceData

\* after the n-th db.set was acknowledged: the next one is started, or the
\* three verification reads are
afterWrite(o, n) ==
    IF n < Len(writeOrder)
    THEN Effect([o EXCEPT !.pc = writePc(writeOrder[n + 1]),
                          !.dbSets = Append(@, keyOf(o, writeOrder[n + 1]))],
                <<>>, <<>>)
    ELSE Effect([o EXCEPT !.pc = "Verify", !.pending = {"user", "global", "record"}],
                <<>>, <<>>)

\* verification[k]?.some(i => i.Id === id) for a list, the value itself for
\* the record
verified(which, value, id) ==
    IF which = "record" THEN value /= None
    ELSE /\ value /= None
         /\ \E i \in 1..Len(value[1]) : value[1][i].Id = id

\* the success response of lines 202-210
successReply(o) ==
    Reply(201, "", "Container redeployed successfully", <<>>,
          [containerId |-> o.responseData[1].containerId,
           volumeId |-> o.responseData[1].volumeId,
           instanceId |-> o.req.id])

VerificationFailed == "Database verification failed after update"

\* afterVerification recording instance:redeploy before the check of the
\* read-back
afterVerificationAuditsFirst(o) ==
    IF ~o.verification.user \/ ~o.verification.global \/ ~o.verification.record
    THEN Effect(dbFailure(o, VerificationFailed).op,
                <<AuditEvent("instance:redeploy", o.req.id, "", "",
                             o.responseData[1].containerId)>>
                \o dbFailure(o, VerificationFailed).audit,
                dbFailure(o, VerificationFailed).agent)
    ELSE Effect(Respond(o, successReply(o)),
                <<AuditEvent("instance:redeploy", o.req.id, "", "",
                             o.responseData[1].containerId)>>,
                <<>>)

\* lines 352-356 and 195-210, once the three reads returned
afterVerification(o) ==
    IF ~o.verification.user \/ ~o.verification.global \/ ~o.verification.record
    THEN dbFailure(o, VerificationFailed)
    ELSE Effect(Respond(o, successReply(o)),
                <<AuditEvent("instance:redeploy", o.req.id, "", "",
                             o.responseData[1].containerId)>>,
                <<>>)

\* afterVerifyRead looking in the read-back for the container id the
\* operation wrote
afterVerifyReadChecksContainer(o, which, value) ==
    LET cid == o.responseData[1].containerId
        o1 == [o EXCEPT !.pending = @ \ {which},
                        !.verification[which] =
                            IF which = "record"
                            THEN value /= None /\ value[1].ContainerId = cid
                            ELSE /\ value /= None
                                 /\ \E i \in 1..Len(value[1]) :
                                        /\ value[1][i].Id = o.req.id
                                        /\ value[1][i].ContainerId = cid]
    IN  IF o1.pending = {} THEN afterVerification(o1) ELSE Effect(o1, <<>>, <<>>)

\* after one read of the Promise.all of lines 346-350 returned value
afterVerifyRead(o, which, value) ==
    LET o1 == [o EXCEPT !.pending = @ \ {which},
                        !.verification[which] = verified(which, value, o.req.id)]
    IN  IF o1.pending = {} THEN afterVerification(o1) ELSE Effect(o1, <<>>, <<>>)

\* the outcomes of the compensating DELETE
DeleteOutcomes == {"ok", "error"}

\* afterRollback losing the persistence error when the DELETE fails: nothing
\* is rethrown and no response is sent
afterRollbackHangs(o, outcome) ==
    IF outcome = "error"
    THEN Effect([o EXCEPT !.pc = "RollbackFailed", !.rollback = outcome], <<>>, <<>>)
    ELSE Effect(Throw([o EXCEPT !.rollback = outcome], o.dbError), <<>>, <<>>)

\* afterRollback letting a failure of the DELETE replace the persistence error
afterRollbackReportsDelete(o, outcome) ==
    Effect(Throw([o EXCEPT !.rollback = outcome],
                 IF outcome = "error" THEN "Request failed" ELSE o.dbError),
           <<>>, <<>>)

\* lines 188-192: a failure of the DELETE is logged and the persistence
\* error is thrown again
afterRollback(o, outcome) ==
    Effect(Throw([o EXCEPT !.rollback = outcome], o.dbError), <<>>, <<>>)

-----------------------------------------------------------------------------
(* The environment and the actions *)

\* An environment names the operations that run (procs), whether they run
\* one after the other, each starting again with a new request, or overlap,
\* each running once (exclusive), the requests they are given (reqs), the
\* ways a store call may go wrong (storeFaults: "reject" for every call,
\* "drop" for a write that is acknowledged and not applied) and whether the
\* node agent may fail (agentFaults).
Env(procs, exclusive, reqs, storeFaults, agentFaults) ==
    [procs |-> procs, exclusive |-> exclusive, reqs |-> reqs,
     storeFaults |-> storeFaults, agentFaults |-> agentFaults]

\* the logAudit calls and the agent requests of an operation, in order
audit(p) == SelectSeq(log[p], LAMBDA e : e.kind = "audit")

agent(p) == SelectSeq(log[p], LAMBDA e : e.kind = "agent")

ReadOutcomes(E) ==
    {"ok"} \cup (IF faults < MaxFaults THEN E.storeFaults \cap {"reject"} ELSE {})

WriteOutcomes(E) ==
    {"ok"} \cup (IF faults < MaxFaults THEN E.storeFaults ELSE {})

Do(p, effect, newStore, newFaults) ==
    /\ op' = [op EXCEPT ![p] = effect.op]
    /\ log' = [log EXCEPT ![p] = @ \o effect.audit \o effect.agent]
    /\ store' = newStore
    /\ faults' = newFaults
    /\ UNCHANGED started

Finished(p) == op[p].pc \in {"idle", "done"}

\* a request arrives: isAdmin or validateRedeploymentParams answers it, or
\* the handler is entered and starts db.get(`${id}_instance`)
Begin(p, E) ==
    /\ Finished(p)
    /\ started < MaxOps
    /\ IF E.exclusive THEN \A q \in E.procs : Finished(q) ELSE op[p].pc = "idle"
    /\ \E q \in E.reqs :
        /\ WithinMaxLen(q)
        /\ op' = [op EXCEPT ![p] = afterMiddlewares(q).op]
        /\ log' = [log EXCEPT ![p] = afterMiddlewares(q).audit \o afterMiddlewares(q).agent]
    /\ started' = started + 1
    /\ UNCHANGED <<store, faults>>

FetchInstance(p, E) ==
    /\ op[p].pc = "FetchInstance"
    /\ \E out \in ReadOutcomes(E) :
        IF out = "reject"
        THEN Do(p, Effect(CatchAll(op[p], StoreError), <<>>, <<>>), store, faults + 1)
        ELSE Do(p, afterFetchInstance(op[p], store[kInstance(op[p].req.id)]), store, faults)

FetchNode(p, E) ==
    /\ op[p].pc = "FetchNode"
    /\ \E out \in ReadOutcomes(E) :
        IF out = "reject"
        THEN Do(p, Effect(CatchAll(op[p], StoreError), <<>>, <<>>), store, faults + 1)
        ELSE Do(p, afterFetchNode(op[p], store[kNode(op[p].instance[1].Node.id)]),
                store, faults)

VerifyContainer(p, E) ==
    /\ op[p].pc = "VerifyContainer"
    /\ \E out \in (IF E.agentFaults THEN GetOutcomes ELSE {"ok"}) :
        Do(p, afterContainerCheck(op[p], out), store, faults)

BuildPayload(p, E) ==
    /\ op[p].pc = "BuildPayload"
    /\ \E out \in ReadOutcomes(E) :
        IF out = "reject"
        THEN Do(p, Effect(CatchAll(op[p], StoreError), <<>>, <<>>), store, faults + 1)
        ELSE Do(p, afterPrepareRead(op[p], store[kImages]), store, faults)

InvokeRedeploy(p, E) ==
    /\ op[p].pc = "InvokeRedeploy"
    /\ \E out \in {x \in PostOutcomes(op[p].req.id) : E.agentFaults \/ ContractOutcome(x)} :
        Do(p, afterRedeployCall(op[p], out), store, faults)

UpdateImages(p, E) ==
    /\ op[p].pc = "UpdateImages"
    /\ \E out \in ReadOutcomes(E) :
        IF out = "reject"
        THEN Do(p, dbFailure(op[p], StoreError), store, faults + 1)
        ELSE Do(p, afterUpdateImagesRead(op[p], store[kImages]), store, faults)

UpdateRead(p, E) ==
    /\ op[p].pc = "UpdateRead"
    /\ \E which \in op[p].pending, out \in ReadOutcomes(E) :
        IF out = "reject"
        THEN Do(p, dbFailure(op[p], StoreError), store, faults + 1)
        ELSE Do(p, afterListRead(op[p], which, store[keyOf(op[p], which)]), store, faults)

\* the n-th db.set returns: applied, rejected, or acknowledged and dropped
Write(p, E) ==
    \E n \in 1..Len(writeOrder) :
        /\ op[p].pc = writePc(writeOrder[n])
        /\ \E out \in WriteOutcomes(E) :
            CASE out = "ok" ->
                    Do(p, afterWrite(op[p], n),
                       [store EXCEPT ![keyOf(op[p], writeOrder[n])] =
                                         writeValue(op[p], writeOrder[n])],
                       faults)
              [] out = "reject" -> Do(p, dbFailure(op[p], StoreError), store, faults + 1)
              [] out = "drop" ->
                    Do(p, afterWrite([op[p] EXCEPT !.dropped = @ \cup {writeOrder[n]}], n),
                       store, faults + 1)

Verify(p, E) ==
    /\ op[p].pc = "Verify"
    /\ \E which \in op[p].pending, out \in ReadOutcomes(E) :
        IF out = "reject"
        THEN Do(p, dbFailure(op[p], StoreError), store, faults + 1)
        ELSE Do(p, afterVerifyRead(op[p], which, store[keyOf(op[p], which)]), store, faults)

Rollback(p, E) ==
    /\ op[p].pc = "Rollback"
    /\ \E out \in (IF E.agentFaults THEN DeleteOutcomes ELSE {"ok"}) :
        Do(p, afterRollback(op[p], out), store, faults)

\* the error a .catch callback threw reaches the catch-all handler of lines
\* 212-224, which answers 500
Rethrow(p, E) ==
    /\ op[p].pc = "Rethrow"
    /\ Do(p, Effect(CatchAll(op[p], op[p].thrown), <<>>, <<>>), store, faults)

Step(E) ==
    \E p \in E.procs :
        \/ Begin(p, E)
        \/ FetchInstance(p, E)
        \/ FetchNode(p, E)
        \/ VerifyContainer(p, E)
        \/ BuildPayload(p, E)
        \/ InvokeRedeploy(p, E)
        \/ UpdateImages(p, E)
        \/ UpdateRead(p, E)
        \/ Write(p, E)
        \/ Verify(p, E)
        \/ Rollback(p, E)
        \/ Rethrow(p, E)

Init ==
    /\ \E u2list \in {None, Some(<<>>)} : store = InitialStore(u2list)
    /\ op = [p \in Ops |-> IdleOp]
    /\ log = [p \in Ops |-> <<>>]
    /\ started = 0
    /\ faults = 0

\* operations one after the other; store calls may reject, the agent may fail
SeqEnv == Env({"opA"}, TRUE, Requests, {"reject"}, TRUE)

Next == Step(SeqEnv)

Spec == Init /\ [][Next]_vars

\* as Spec, with a store that may also drop a write it acknowledges
DropEnv == Env({"opA"}, TRUE, Requests, {"reject", "drop"}, TRUE)

NextDrop == Step(DropEnv)

SpecDrop == Init /\ [][NextDrop]_vars

\* requests with every subset of the seven query parameters absent, and
\* with well-formed and malformed ports and memory when these are present
SubsetRequests ==
    { Request("i1", image, memory, cpu, ports, name, user, primary) :
        image \in {<<>>, <<"x", "(", "a", ")">>},
        memory \in {<<>>, GoodMemory, <<"a">>, <<"\\u00A0", "+", "5">>},
        cpu \in {<<>>, GoodCpu},
        ports \in {<<>>, GoodPorts, <<"8", "-", "9">>},
        name \in {"", "nm"}, user \in {"", "u1"}, primary \in {"", "t"} }

\* as Spec, with the requests that exercise the validator
ValidateEnv ==
    Env({"opA"}, TRUE, SubsetRequests \cup UnauthorizedRequests, {"reject"}, TRUE)

NextValidate == Step(ValidateEnv)

SpecValidate == Init /\ [][NextValidate]_vars

\* requests of the concurrent specification: two instances of the same
\* node, each user
ConcRequests ==
    { Request(id, <<"x", "(", "a", ")">>, GoodMemory, GoodCpu, GoodPorts, "nm", user, "t") :
        id \in {"i1", "i2"}, user \in UserIds }

\* operations that overlap; no store call rejects and the agent answers
ConcEnv == Env(Ops, FALSE, ConcRequests, {}, FALSE)

NextConc == Step(ConcEnv)

SpecConc == Init /\ [][NextConc]_vars

\* the steps that follow the return or the failure of a store call or of a
\* node-agent call
Progress(E) ==
    \E p \in E.procs :
        \/ FetchInstance(p, E)
        \/ FetchNode(p, E)
        \/ VerifyContainer(p, E)
        \/ BuildPayload(p, E)
        \/ InvokeRedeploy(p, E)
        \/ UpdateImages(p, E)
        \/ UpdateRead(p, E)
        \/ Write(p, E)
        \/ Verify(p, E)
        \/ Rollback(p, E)
        \/ Rethrow(p, E)

\* requests that end at each stage of the route: one the validator
\* rejects, one for an absent instance, one for an instance without a node
\* id, one without a parenthesized image name, one for an absent node, one
\* for an image that is not in the catalog, one that reaches the updater,
\* and one isAdmin turns away
LiveRequests ==
    { Request("i1", <<"x", "(", "a", ")">>, <<"a">>, GoodCpu, GoodPorts, "nm", "u1", "t"),
      Request("i9", <<"x", "(", "a", ")">>, GoodMemory, GoodCpu, GoodPorts, "nm", "u1", "t"),
      Request("i4", <<"x", "(", "a", ")">>, GoodMemory, GoodCpu, GoodPorts, "nm", "u1", "t"),
      Request("i1", <<"a">>, GoodMemory, GoodCpu, GoodPorts, "nm", "u1", "t"),
      Request("i3", <<"x", "(", "a", ")">>, GoodMemory, GoodCpu, GoodPorts, "nm", "u1", "t"),
      Request("i1", <<"x", "(", "b", ")">>, GoodMemory, GoodCpu, GoodPorts, "nm", "u1", "t"),
      Request("i1", <<"x", "(", "a", ")">>, GoodMemory, GoodCpu, GoodPorts, "nm", "u1", "t"),
      SentBy(Request("i1", <<"x", "(", "a", ")">>, GoodMemory, GoodCpu, GoodPorts, "nm", "u1", "t"),
             PlainUser) }

LiveEnv == Env({"opA"}, FALSE, LiveRequests, {"reject"}, TRUE)

\* one operation from its request to its response, with every store call and
\* every node-agent call eventually returning or failing
NextLive == Step(LiveEnv)

SpecLive == Init /\ [][NextLive]_vars /\ WF_vars(Progress(LiveEnv))

-----------------------------------------------------------------------------
(* Properties *)

Done(p) == op[p].pc = "done"

Succeeded(p) == Done(p) /\ op[p].response[1].status = 201

\* the POST of the operation returned the id of a new container
PostReturned(p) == op[p].responseData /= None /\ op[p].responseData[1].containerId /= ""

\* the POST was answered with a 2xx status
PostSucceeded(p) == op[p].responseData /= None

NewContainerId(p) == op[p].responseData[1].containerId

\* the optional list value holds an entry of the instance id
HasId(value, id) ==
    value /= None /\ \E i \in 1..Len(value[1]) : value[1][i].Id = id

\* the optional list value holds an entry of the instance id and container id
HasEntry(value, id, cid) ==
    /\ value /= None
    /\ \E i \in 1..Len(value[1]) : value[1][i].Id = id /\ value[1][i].ContainerId = cid

\* the number of entries of the instance id in the optional list value
CountId(value, id) ==
    IF value = None THEN 0
    ELSE Cardinality({i \in 1..Len(value[1]) : value[1][i].Id = id})

\* the three views hold the instance with the container id
ViewsHold(id, user, cid) ==
    /\ store[kInstance(id)] /= None
    /\ store[kInstance(id)][1].Id = id
    /\ store[kInstance(id)][1].ContainerId = cid
    /\ HasEntry(store[kInstances], id, cid)
    /\ HasEntry(store[kUserInstances(user)], id, cid)

Logged(p, kind, name) == \E i \in 1..Len(log[p]) : log[p][i].kind = kind /\ log[p][i].name = name

\* C1: a redeploy whose existence check succeeded, whose POST returned a new
\* container id c and whose store calls all succeeded ends with the success
\* response carrying containerId = c and instanceId = the request's id, and
\* the three views then hold an entry of that id with ContainerId = c.
C1_HappyPathPersists ==
    \A p \in Ops :
        (Done(p) /\ PostReturned(p) /\ faults = 0) =>
            /\ op[p].response[1].status = 201
            /\ op[p].response[1].data.containerId = NewContainerId(p)
            /\ op[p].response[1].data.instanceId = op[p].req.id
            /\ ViewsHold(op[p].req.id, op[p].req.user, NewContainerId(p))

\* the same with both lists present when the updater read them
C1_HappyPathListsPresent ==
    \A p \in Ops :
        (Done(p) /\ PostReturned(p) /\ faults = 0
           /\ op[p].userInstances /= None /\ op[p].globalInstances /= None) =>
            /\ op[p].response[1].status = 201
            /\ op[p].response[1].data.containerId = NewContainerId(p)
            /\ op[p].response[1].data.instanceId = op[p].req.id
            /\ ViewsHold(op[p].req.id, op[p].req.user, NewContainerId(p))

\* the Promise.all of lines 327-330 returned both values
ListsRead(p) ==
    op[p].instanceData /= None /\ (op[p].pending = {} \/ op[p].dbSets /= <<>>)

\* the updater filtered an undefined list
ListUndefined(p) ==
    /\ ListsRead(p)
    /\ op[p].userInstances = None \/ op[p].globalInstances = None

\* the verification reads all returned and one of the three tests failed
VerificationMissed(p) ==
    /\ Len(op[p].dbSets) = Len(writeOrder)
    /\ op[p].pending = {}
    /\ op[p].pc /= writePc(writeOrder[Len(writeOrder)])
    /\ ~(op[p].verification.user /\ op[p].verification.global /\ op[p].verification.record)

\* updateDatabaseWithNewInstance failed: its promise rejected (dbError is the
\* error the .catch of line 171 received), or one of the conditions under
\* which it throws was met
UpdaterFailed(p) ==
    /\ PostSucceeded(p)
    /\ op[p].dbError /= "" \/ ListUndefined(p) \/ VerificationMissed(p)

DeleteSent(p, cid) ==
    \E i \in 1..Len(log[p]) :
        log[p][i].kind = "agent" /\ log[p][i].name = "delete" /\ log[p][i].containerId = cid

\* C2: whenever the updater fails after a successful POST, the operation
\* records instance:redeploy_fail:db_update, sends a DELETE for the container
\* id of the POST's answer and ends in failure, never in success.
C2_UpdaterFailureCompensated ==
    \A p \in Ops :
        (PostSucceeded(p) /\ UpdaterFailed(p)) =>
            /\ Logged(p, "audit", "instance:redeploy_fail:db_update")
            /\ DeleteSent(p, NewContainerId(p))
            /\ op[p].pc \in {"Rollback", "Rethrow", "done"}
            /\ ~Logged(p, "audit", "instance:redeploy")
            /\ Done(p) => op[p].response[1].status = 500

\* the same for a POST that returned the id of a new container, which holds
C2_CompensatedWhenIdReturned ==
    \A p \in Ops :
        (PostReturned(p) /\ UpdaterFailed(p)) =>
            /\ Logged(p, "audit", "instance:redeploy_fail:db_update")
            /\ DeleteSent(p, NewContainerId(p))
            /\ op[p].pc \in {"Rollback", "Rethrow", "done"}
            /\ ~Logged(p, "audit", "instance:redeploy")
            /\ Done(p) => op[p].response[1].status = 500

\* C3: after a successful redeploy the global list and the list of the
\* request's user each hold exactly one entry of the instance id, also when
\* the instance was redeployed before with the same inputs.
C3_OneEntryPerId ==
    \A p \in Ops :
        Succeeded(p) =>
            /\ CountId(store[kInstances], op[p].req.id) = 1
            /\ CountId(store[kUserInstances(op[p].req.user)], op[p].req.id) = 1

\* the record the operation fetched was written by a redeploy of the same
\* inputs
RedeployedBeforeWithSameInputs(p) ==
    /\ op[p].instance /= None
    /\ op[p].instance[1].Name = op[p].req.name
    /\ op[p].instance[1].User = op[p].req.user
    /\ op[p].instance[1].Image = op[p].shortimage
    /\ op[p].instance[1].Ports = op[p].req.ports
    /\ op[p].instance[1].Primary = op[p].req.primary
    /\ op[p].instance[1].Memory = parseInt(op[p].req.memory)

C3_Witness ==
    \E p \in Ops :
        /\ Succeeded(p)
        /\ RedeployedBeforeWithSameInputs(p)
        /\ CountId(store[kInstances], op[p].req.id) = 1
        /\ CountId(store[kUserInstances(op[p].req.user)], op[p].req.id) = 1

\* C4: two overlapping redeploys of different instance ids that both report
\* success leave what running them one after the other leaves: for each of
\* them the three views hold its instance with its new container id.
C4_DifferentIdsIndependent ==
    \A p, q \in Ops :
        (Succeeded(p) /\ Succeeded(q) /\ op[p].req.id /= op[q].req.id) =>
            ViewsHold(op[p].req.id, op[p].req.user, NewContainerId(p))

\* C5: a write the store acknowledged without applying makes the updater
\* fail with the verification error.
C5_DroppedWriteDetected ==
    \A p \in Ops :
        (Done(p) /\ op[p].dropped /= {}) =>
            /\ ~Succeeded(p)
            /\ op[p].dbError = VerificationFailed

\* C6: whenever {id}_instance exists, the global list and the list of the
\* owner the record names hold an entry of that id.
C6_Mirror ==
    \A id \in InstIds :
        store[kInstance(id)] /= None =>
            /\ HasId(store[kInstances], id)
            /\ HasId(store[kUserInstances(store[kInstance(id)][1].User)], id)

\* an operation failed between its writes: the list of the new owner holds
\* the new entry and the record still names the old owner
C6_Witness ==
    \E p \in Ops :
        /\ Done(p) /\ op[p].dbError = StoreError
        /\ Len(op[p].dbSets) >= 2
        /\ op[p].req.user /= op[p].instance[1].User
        /\ HasEntry(store[kUserInstances(op[p].req.user)], op[p].req.id, NewContainerId(p))
        /\ store[kInstance(op[p].req.id)][1].User = op[p].instance[1].User

\* C7: a list key absent at the updater's read is taken as the empty list:
\* the update goes on without compensation, and after it the list holds
\* exactly the new record.
C7_AbsentListIsEmpty ==
    \A p \in Ops :
        (ListsRead(p) /\ op[p].userInstances = None /\ faults = 0) =>
            /\ op[p].dbError = ""
            /\ ~Logged(p, "agent", "delete")
            /\ Done(p) => /\ Succeeded(p)
                          /\ store[kUserInstances(op[p].req.user)]
                                = Some(<<op[p].instanceData[1]>>)

\* the instance record of the request exists and names a node id whose
\* record is absent
DanglingNode(p) ==
    /\ op[p].req.id /= ""
    /\ store[kInstance(op[p].req.id)] /= None
    /\ store[kInstance(op[p].req.id)][1].Node.id /= ""
    /\ store[kNode(store[kInstance(op[p].req.id)][1].Node.id)] = None

\* the invalid-node outcome: the response, exactly one audit event carrying
\* the node id, no request to the node agent and no store write
InvalidNodeOutcome(p) ==
    /\ op[p].response[1] = Fail(400, "Invalid node")
    /\ log[p] = <<AuditEvent("instance:redeploy_fail:invalid_node", "",
                             store[kInstance(op[p].req.id)][1].Node.id, "", "")>>
    /\ op[p].dbSets = <<>>

\* C8 as stated: an operation on an instance whose node record is absent ends
\* with the invalid-node outcome.
C8_DanglingNodeIsInvalidNode ==
    \A p \in Ops : (Done(p) /\ DanglingNode(p)) => InvalidNodeOutcome(p)

\* C8, amended: it does when the request passes the validator, the image
\* parameter holds a parenthesized name and no store read rejects.
C8_DanglingNodeAfterChecks ==
    \A p \in Ops :
        (/\ Done(p) /\ DanglingNode(p)
         /\ validateRedeploymentParams(op[p].req) = None
         /\ imageMatch(op[p].req.image) /= None
         /\ faults = 0) => InvalidNodeOutcome(p)

C8_Witness ==
    \E p \in Ops :
        /\ Done(p) /\ DanglingNode(p)
        /\ imageMatch(op[p].req.image) /= None
        /\ faults = 0
        /\ InvalidNodeOutcome(p)

\* C9: on success the response's volumeId is the instance id, the VolumeId of
\* the persisted record, whatever the node agent returned.
C9_VolumeIdIsInstanceId ==
    \A p \in Ops :
        Succeeded(p) =>
            /\ op[p].response[1].data.volumeId = op[p].req.id
            /\ op[p].response[1].data.volumeId = op[p].instanceData[1].VolumeId

\* the positions of the DELETE requests in the log of an operation
Deletes(p) == {i \in 1..Len(log[p]) : log[p][i].kind = "agent" /\ log[p][i].name = "delete"}

\* C10: a DELETE is sent in an operation if and only if its POST succeeded and
\* its updater then failed; it is sent at most once, after the db_update
\* audit event, and the operation records no other failure event.
C10_DeleteOnlyAfterUpdaterFailure ==
    \A p \in Ops :
        /\ (Deletes(p) /= {}) <=> UpdaterFailed(p)
        /\ Cardinality(Deletes(p)) <= 1
        /\ \A i \in Deletes(p) :
            /\ log[p][i].containerId = NewContainerId(p)
            /\ \E j \in 1..(i - 1) :
                log[p][j].kind = "audit" /\ log[p][j].name = "instance:redeploy_fail:db_update"
            /\ \A j \in 1..Len(log[p]) :
                log[p][j].kind = "audit" => log[p][j].name = "instance:redeploy_fail:db_update"

\* the query parameters in the order validateRedeploymentParams tests them
ParamOrder == <<"image", "memory", "cpu", "ports", "name", "user", "primary">>

\* the query parameters absent from a request
AbsentParams(q) ==
    {n \in {"image", "memory", "cpu", "ports"} : q[n] = <<>>}
    \cup {n \in {"name", "user", "primary"} : q[n] = ""}

\* C11: an administrator's request with an instance id and a non-empty set of absent query
\* parameters is rejected with `missing` listing exactly the absent names,
\* each once, in the order image, memory, cpu, ports, name, user, primary;
\* the handler is not entered: no local is set, nothing is logged, no db.set.
C11_MissingListsAbsentParams ==
    \A p \in Ops :
        (/\ Done(p) /\ isAdmin(op[p].req) = None
         /\ op[p].req.id /= "" /\ AbsentParams(op[p].req) /= {}) =>
            /\ op[p].response[1].status = 400
            /\ op[p].response[1].error = "Missing required parameters"
            /\ op[p].response[1].missing =
                 SelectSeq(ParamOrder, LAMBDA n : n \in AbsentParams(op[p].req))
            /\ op[p] = [IdleOp EXCEPT !.pc = "done", !.req = op[p].req,
                                      !.response = op[p].response]
            /\ log[p] = <<>>

\* a request without image, ports and user, with malformed memory, was rejected
C11_Witness ==
    \E p \in Ops :
        /\ Done(p)
        /\ AbsentParams(op[p].req) = {"image", "ports", "user"}
        /\ op[p].req.memory = <<"a">>
        /\ op[p].response[1].missing = <<"image", "ports", "user">>

\* C12: when updateDatabaseWithNewInstance fails, the three keys it writes
\* are as they were before the call (the values the operation read).
C12_FailedUpdateLeavesStore ==
    \A p \in Ops :
        (Done(p) /\ PostReturned(p) /\ op[p].dbError /= "" /\ op[p].dbSets /= <<>>) =>
            /\ store[kUserInstances(op[p].req.user)] = op[p].userInstances
            /\ store[kInstances] = op[p].globalInstances
            /\ store[kInstance(op[p].req.id)] = op[p].instance

WritePcs == {writePc(writeOrder[n]) : n \in 1..Len(writeOrder)}

\* C13: the store changes only in a step of an operation whose POST was
\* answered with a 2xx status and that is waiting for one of its three db.set calls, and
\* then only at the keys {id}_instance, instances and {userId}_instances of
\* that operation.
C13_WritesOnlyAfterPost ==
    [][store' /= store =>
        \E p \in Ops :
            /\ PostSucceeded(p)
            /\ op[p].pc \in WritePcs
            /\ \A k \in Keys :
                store'[k] /= store[k] =>
                    k \in {kInstance(op[p].req.id), kInstances,
                           kUserInstances(op[p].req.user)}]_vars

\* an operation ended at InvokeRedeploy, the POST having failed, with no db.set
C13_Witness ==
    \E p \in Ops :
        /\ Done(p) /\ ~PostSucceeded(p)
        /\ Logged(p, "agent", "post")
        /\ Logged(p, "audit", "instance:redeploy_fail:api_error")
        /\ op[p].dbSets = <<>>
        /\ \E u2list \in {None, Some(<<>>)} : store = InitialStore(u2list)

\* the position of the first entry of the kind and name in the operation's
\* log, 0 if there is none
FirstLogged(p, kind, name) ==
    IF Logged(p, kind, name)
    THEN CHOOSE i \in 1..Len(log[p]) :
            /\ log[p][i].kind = kind /\ log[p][i].name = name
            /\ \A j \in 1..(i - 1) : ~(log[p][j].kind = kind /\ log[p][j].name = name)
    ELSE 0

\* C14: a POST is in the log of an operation only after the GET for the
\* instance's current container id, answered with a non-empty body, and with
\* the payload built from the catalog entry whose Image equals the short image
\* name; an operation whose GET failed or returned an empty body is over with
\* the container_check audit event and no POST, and one whose image is not in
\* the catalog is over with the failure response and no POST.
C14_PostOnlyAfterCheckAndPayload ==
    \A p \in Ops :
        /\ Logged(p, "agent", "post") =>
            /\ 0 < FirstLogged(p, "agent", "get")
            /\ FirstLogged(p, "agent", "get") < FirstLogged(p, "agent", "post")
            /\ log[p][FirstLogged(p, "agent", "get")].containerId
                 = op[p].instance[1].ContainerId
            /\ op[p].containerCheck = "ok"
            /\ op[p].requestData /= None
            /\ \E i \in 1..Len(orEmpty(store[kImages])) :
                /\ orEmpty(store[kImages])[i].Image = op[p].shortimage
                /\ op[p].requestData[1].data.Image = op[p].shortimage
        /\ op[p].containerCheck \in {"empty", "error"} =>
            /\ Done(p)
            /\ op[p].response[1].status = 400
            /\ op[p].response[1].error = "Container check failed"
            /\ audit(p) = <<AuditEvent("instance:redeploy_fail:container_check", op[p].req.id, "",
                                       IF op[p].containerCheck = "empty"
                                       THEN "Container not found" ELSE "Request failed", "")>>
            /\ ~Logged(p, "agent", "post")
        /\ (/\ op[p].containerCheck = "ok" /\ op[p].pc /= "BuildPayload"
            /\ findImage(orEmpty(store[kImages]), op[p].shortimage) = None) =>
            /\ Done(p)
            /\ op[p].response[1].status = 500
            /\ op[p].response[1].error = "Instance redeployment failed"
            /\ op[p].response[1].details \in {"Image not found in database", StoreError}
            /\ ~Logged(p, "agent", "post")

\* the POST has been sent, after the GET
C14_Witness ==
    \E p \in Ops :
        /\ op[p].pc = "InvokeRedeploy"
        /\ agent(p) = <<AgentRequest("get", "c1"), AgentRequest("post", "c1")>>
        /\ op[p].containerCheck = "ok"

\* C15: once the compensating DELETE has returned, whether it succeeded or
\* failed, the error the updater failed with is the one thrown to the
\* catch-all handler, and the operation is over with the failure response
\* whose details are that error; the DELETE is the last entry of the
\* operation's log, and the db_update event is its only audit event.
C15_DeleteOutcomeIgnored ==
    \A p \in Ops :
        op[p].rollback /= "" =>
            /\ op[p].pc \in {"Rethrow", "done"}
            /\ op[p].dbError /= ""
            /\ op[p].thrown = op[p].dbError
            /\ op[p].response =
                 IF Done(p)
                 THEN Some(Reply(500, "Instance redeployment failed", op[p].dbError, <<>>,
                                 NoData))
                 ELSE None
            /\ log[p][Len(log[p])] = AgentRequest("delete", NewContainerId(p))
            /\ audit(p) = <<AuditEvent("instance:redeploy_fail:db_update", op[p].req.id, "",
                                       op[p].dbError, "")>>

\* an operation ended after its DELETE failed
C15_Witness ==
    \E p \in Ops :
        /\ Done(p) /\ op[p].rollback = "error"
        /\ op[p].dbError = StoreError
        /\ op[p].response[1].details = StoreError

\* the errors of the rejections for invalid input: those of the validator and
\* the image-format check, and those the payload builder throws for a port
\* mapping
InvalidInputErrors ==
    {"missing_instance_id", "Missing required parameters", "Invalid port format",
     "Invalid memory value", "Invalid CPU value", "Invalid image format"}

PortErrors == {"Invalid port mapping", "Invalid host port", "Invalid container port"}

\* the request lacks or malforms a parameter, its image has no parenthesized
\* name, or one of its port entries is malformed
Malformed(q) ==
    \/ validateRedeploymentParams(q) /= None
    \/ imageMatch(q.image) = None
    \/ firstPortError(portMappings(q.ports)) /= ""

\* C16: an operation whose request is malformed sends nothing to the node
\* agent, and an operation that ended with one of the invalid-input errors
\* has sent nothing to the node agent and made no db.set call.
C16_InvalidInputNoAgentCall ==
    \A p \in Ops :
        /\ (op[p].pc /= "idle" /\ Malformed(op[p].req)) => agent(p) = <<>>
        /\ (/\ Done(p)
            /\ \/ op[p].response[1].error \in InvalidInputErrors
               \/ op[p].response[1].details \in PortErrors) =>
                /\ agent(p) = <<>>
                /\ op[p].dbSets = <<>>

\* the handler rejected the image parameter of an existing instance with a
\* node
C16_Witness ==
    \E p \in Ops :
        /\ Done(p)
        /\ op[p].response[1].error = "Invalid image format"
        /\ store[kInstance(op[p].req.id)] /= None
        /\ agent(p) = <<>>

FailureEvents ==
    {"instance:redeploy_fail:not_found", "instance:redeploy_fail:invalid_node",
     "instance:redeploy_fail:container_check", "instance:redeploy_fail:api_error",
     "instance:redeploy_fail:db_update"}

\* C17: an operation records at most one audit event, a failure event, the
\* unauthorized-access event of isAdmin or instance:redeploy; instance:redeploy is recorded exactly when the success
\* response is sent, and never after a failure event.
C17_OneAuditEvent ==
    \A p \in Ops :
        /\ Len(audit(p)) <= 1
        /\ \A i \in 1..Len(audit(p)) :
            audit(p)[i].name \in FailureEvents
                \cup {"instance:redeploy", "unauthorized_access:admin_route"}
        /\ Logged(p, "audit", "instance:redeploy") <=> Succeeded(p)
        /\ \A i, j \in 1..Len(log[p]) :
            (i < j /\ log[p][i].kind = "audit" /\ log[p][i].name \in FailureEvents) =>
                log[p][j].name /= "instance:redeploy"

\* an operation ended in success with its one event
C17_Witness ==
    \E p \in Ops :
        /\ Succeeded(p)
        /\ audit(p) = <<AuditEvent("instance:redeploy", op[p].req.id, "", "",
                                   NewContainerId(p))>>

\* the three views do not all hold the same container id for the instance
ViewsDisagree(id, user) ==
    \E c \in NewContainerIds :
        /\ store[kInstance(id)] /= None
        /\ store[kInstance(id)][1].ContainerId /= c
        /\ HasEntry(store[kInstances], id, c)
        /\ HasEntry(store[kUserInstances(user)], id, c)

\* C18: of two overlapping redeploys of the same instance id, each one whose
\* updater read both lists ends in success, whatever the other wrote in
\* between: the read-back of neither tells its own entries from the other's.
\* (The witness is the interleaving the claim names.)
C18_SameIdNotExcluded ==
    \A p, q \in Ops :
        (/\ p /= q /\ op[q].pc /= "idle" /\ op[p].req.id = op[q].req.id
         /\ Done(p) /\ PostReturned(p) /\ ~ListUndefined(p)) =>
            Succeeded(p)

\* both operations reported success, for the same instance and user and with
\* different new containers, and the record holds the container of one while
\* the two lists hold the container of the other
C18_Witness ==
    /\ Succeeded("opA") /\ Succeeded("opB")
    /\ op["opA"].req.id = op["opB"].req.id
    /\ op["opA"].req.user = op["opB"].req.user
    /\ NewContainerId("opA") /= NewContainerId("opB")
    /\ ViewsDisagree(op["opA"].req.id, op["opA"].req.user)

\* C19: after a successful redeploy every entry of the instance id in every
\* per-user list carries the new container id, also when the request's user
\* is not the owner the instance record named.
C19_NoStaleUserEntry ==
    \A p \in Ops :
        Succeeded(p) =>
            \A u \in UserIds :
                store[kUserInstances(u)] /= None =>
                    \A i \in 1..Len(store[kUserInstances(u)][1]) :
                        store[kUserInstances(u)][1][i].Id = op[p].req.id =>
                            store[kUserInstances(u)][1][i].ContainerId = NewContainerId(p)

Running(p) == op[p].pc \notin {"idle", "done"}

\* C20: an operation that has been entered reaches its end; it has a
\* response exactly when it has ended, and that response is one; and once it
\* has responded none of its steps can be taken.
C20_Terminates ==
    /\ \A p \in Ops : Running(p) ~> Done(p)
    /\ [](\A p \in Ops : /\ Done(p) <=> op[p].response /= None
                         /\ Len(op[p].response) <= 1)
    /\ []((\E p \in LiveEnv.procs : Done(p)) => ~ENABLED Progress(LiveEnv))

\* an operation has ended after its last step, the compensating DELETE, and
\* has its one response
C20_Witness ==
    \E p \in Ops :
        /\ Done(p) /\ Len(op[p].response) = 1
        /\ op[p].rollback = "ok" /\ op[p].dbError = StoreError

=============================================================================
